---------------------------- MODULE Spec2Model ----------------------------
(***************************************************************************)
(* Model of pkg/cmd/cluster-policy-controller/policy_controller.go:        *)
(* the bootstrap of the cluster-policy-controller.  One process runs       *)
(* RunClusterPolicyController, which launches leader election in the       *)
(* background; on acquiring the lease the leadership callback              *)
(* (originControllerManager) waits for a healthy API server, waits for the *)
(* RBAC grant, builds the controller context, starts every enabled         *)
(* controller and finally starts the informers.  klog.Fatal ends the       *)
(* process.                                                                *)
(*                                                                         *)
(* Spec       : one process, from RunClusterPolicyController to its end.   *)
(* SpecLive   : Spec with the callback's goroutine scheduled fairly.       *)
(* SpecFleet  : several candidate processes competing for the one lease.   *)
(* SpecHealth : WaitForHealthyAPIServer called repeatedly against a server *)
(*              that is healthy or not.                                    *)
(***************************************************************************)
EXTENDS Naturals, FiniteSets

(***************************************************************************)
(* Program constants.                                                      *)
(***************************************************************************)
\* 5*time.Minute polled every time.Second: 300 polling intervals.
HealthBudget ==
    300

\* 2*time.Minute polled every time.Second: 120 polling intervals.
AuthBudget ==
    120

\* http.StatusOK
StatusOK ==
    200

(***************************************************************************)
(* Bounds of the model.                                                    *)
(***************************************************************************)
\* number of entries of origincontrollers.ControllerInitializers
NumControllers ==
    3

\* number of calls of WaitForHealthyAPIServer in a row (SpecHealth)
MaxCalls ==
    2

\* number of candidate processes of the fleet (SpecFleet)
NumProcs ==
    3

\* config.LeaderElection.RenewDeadline, in retry periods (SpecFleet)
RenewDeadline ==
    2

Controllers ==
    1 .. NumControllers

Procs ==
    1 .. NumProcs

\* "no controller": the zero value of a controller name
NoController ==
    0

VARIABLES
    returned,       \* RunClusterPolicyController: "no", "nil", or the failed step
    leState,        \* leader election of this process: "Off", "Standby", "Leading", "Lost"
    acquisitions,   \* number of successful lease acquisitions of this process
    invocations,    \* number of invocations of originControllerManager
    pc,             \* position of the leadership callback
    polls,          \* condition calls made by the wait in progress
    lastProbe,      \* response to the last health probe (a record) or NoResponse
    transportSeen,  \* some health probe of this process failed at transport level
    healthzContent, \* local of WaitForHealthyAPIServer
    healthErr,      \* result of WaitForHealthyAPIServer: "pending", "nil", "err"
    authAnswers,    \* answers received by WaitForAuthorizationUpdate, as counts
    lastAnswer,     \* answer to the last authorization query
    authErr,        \* result of WaitForAuthorizationUpdate: "pending", "nil", "err"
    hasContext,     \* a ControllerContext has been built
    enabled,        \* controllers for which IsControllerEnabled is true
    visited,        \* registry entries the range loop has visited
    invoked,        \* per controller, number of calls of its start function
    outcome,        \* per controller: "none", "disabled", "started", "skipped", "error"
    current,        \* controller whose start function is running, or NoController
    informers,      \* number of calls of StartInformers
    fatal,          \* "none", or the reason klog.Fatal ended the process
    fatalName,      \* controller named by the fatal message, or NoController
    results,        \* per controller, what its start function returns
    serverHealthy,  \* SpecHealth: the API server answers /healthz with 200
    healthyCalls,   \* SpecHealth: calls in a row made against a healthy server
    calls,          \* SpecHealth: calls of WaitForHealthyAPIServer made so far
    lease,          \* SpecFleet: the lease record of the coordination service
    fleet           \* SpecFleet: per candidate process, its election state

procVars ==
    <<returned, leState, acquisitions, invocations, pc, polls, lastProbe,
      transportSeen, healthzContent, healthErr, authAnswers, lastAnswer,
      authErr, hasContext, enabled, visited, invoked, outcome, current,
      informers, fatal, fatalName, results>>

fleetVars ==
    <<lease, fleet>>

harnessVars ==
    <<serverHealthy, healthyCalls, calls>>

vars ==
    <<procVars, fleetVars, harnessVars>>

(***************************************************************************)
(* Responses of the external services.                                     *)
(***************************************************************************)
NoResponse ==
    [transport |-> FALSE, status |-> 0, body |-> "none"]

\* What GET /healthz can produce: a transport-level failure (no status
\* code), 200 with a body, or a non-success status with a body.
HealthResponses ==
    { [transport |-> TRUE,  status |-> 0,        body |-> ""],
      [transport |-> FALSE, status |-> StatusOK, body |-> "ok"],
      [transport |-> FALSE, status |-> 500,      body |-> "etcd failed"] }

\* What SubjectAccessReviews().Create can produce.
AuthResponses ==
    {"error", "denied", "allowed"}

NoAnswers ==
    [denied |-> 0, allowed |-> 0, error |-> 0]

Alive ==
    fatal = "none"

(***************************************************************************)
(* wait.PollImmediate(interval, timeout, condition): the condition is      *)
(* called at once, then once per interval tick, and once more when the     *)
(* timeout closes the tick channel.  The tick at the instant of the        *)
(* timeout races with it, so it may or may not be delivered.  `polls` is   *)
(* the number of condition calls made so far; a call takes less than one   *)
(* interval, so no tick is dropped.                                        *)
(***************************************************************************)
\* the next condition call may be the immediate one or one driven by a tick
CanTick(budget) ==
    polls <= budget

\* the next condition call may be the one made after the timeout fired
CanClose(budget) ==
    polls >= budget

\* wait.WaitFor's treatment of one condition result c = (done, err)
PollResult(c, closed) ==
    IF c.err THEN "err"
    ELSE IF c.done THEN "nil"
    ELSE IF closed THEN "err"
    ELSE "pending"

(***************************************************************************)
(* WaitForHealthyAPIServer                                                 *)
(***************************************************************************)
\* StatusCode(&healthStatus): a transport failure leaves healthStatus at 0
HealthStatus(resp) ==
    IF resp.transport THEN 0 ELSE resp.status

HealthCond_AbortOnTransport(resp) ==
    [done |-> HealthStatus(resp) = StatusOK, err |-> resp.transport]

HealthCond_Inverted(resp) ==
    [done |-> HealthStatus(resp) # StatusOK, err |-> FALSE]

\* the condition function of WaitForHealthyAPIServer
HealthCond(resp) ==
    [done |-> HealthStatus(resp) = StatusOK, err |-> FALSE]

\* One probe of GET /healthz and what the poll does with it; when the
\* poll ends, WaitForHealthyAPIServer returns to line 52.
WaitForHealthyAPIServer ==
    /\ Alive
    /\ pc = "WaitHealthy"
    /\ \E resp \in HealthResponses, closed \in BOOLEAN :
          /\ IF closed THEN CanClose(HealthBudget) ELSE CanTick(HealthBudget)
          /\ LET c == HealthCond(resp)
                 r == PollResult(c, closed)
             IN  /\ polls' = polls + 1
                 /\ lastProbe' = resp
                 /\ transportSeen' = (transportSeen \/ resp.transport)
                 /\ healthzContent' = IF HealthStatus(resp) = StatusOK
                                         THEN resp.body
                                         ELSE healthzContent
                 /\ healthErr' = r
                 /\ pc' = IF r = "pending" THEN pc ELSE "HealthReturned"
    /\ UNCHANGED <<returned, leState, acquisitions, invocations, authAnswers,
                   lastAnswer, authErr, hasContext, enabled, visited, invoked,
                   outcome, current, informers, fatal, fatalName, fleetVars,
                   results, harnessVars>>

\* line 125: fmt.Errorf("server unhealthy: %v: %v", healthzContent, err),
\* the error WaitForHealthyAPIServer returns when the poll failed
ServerUnhealthyError ==
    [msg |-> "server unhealthy", content |-> healthzContent, cause |-> "timed out"]

HealthReturned_IgnoreErr ==
    /\ Alive
    /\ pc = "HealthReturned"
    /\ pc' = "WaitAuthz"
    /\ polls' = 0
    /\ lastProbe' = NoResponse
    /\ healthzContent' = ""
    /\ UNCHANGED <<fatal, returned, leState, acquisitions, invocations, healthErr,
                   authAnswers, lastAnswer, authErr, hasContext, enabled, visited,
                   invoked, outcome, current, informers, fatalName, fleetVars,
                   transportSeen, results, harnessVars>>

HealthReturned_RetryOnErr ==
    /\ Alive
    /\ pc = "HealthReturned"
    /\ polls' = 0
    /\ lastProbe' = NoResponse
    /\ healthzContent' = ""
    /\ IF healthErr = "err"
         THEN pc' = "WaitHealthy" /\ healthErr' = "pending"
         ELSE pc' = "WaitAuthz" /\ UNCHANGED healthErr
    /\ UNCHANGED <<fatal, returned, leState, acquisitions, invocations,
                   authAnswers, lastAnswer, authErr, hasContext, enabled, visited,
                   invoked, outcome, current, informers, fatalName, fleetVars,
                   transportSeen, results, harnessVars>>

\* originControllerManager, lines 52-54: klog.Fatal on error, else go on to
\* the authorization wait (the locals of the finished wait are gone).
HealthReturned ==
    /\ Alive
    /\ pc = "HealthReturned"
    /\ IF healthErr = "err"
         THEN /\ fatal' = "server unhealthy"
              /\ UNCHANGED <<pc, polls, lastProbe, healthzContent>>
         ELSE /\ pc' = "WaitAuthz"
              /\ polls' = 0
              /\ lastProbe' = NoResponse
              /\ healthzContent' = ""
              /\ UNCHANGED fatal
    /\ UNCHANGED <<returned, leState, acquisitions, invocations, healthErr,
                   authAnswers, lastAnswer, authErr, hasContext, enabled, visited,
                   invoked, outcome, current, informers, fatalName, fleetVars,
                   transportSeen, results, harnessVars>>

(***************************************************************************)
(* WaitForAuthorizationUpdate                                              *)
(***************************************************************************)
AuthCond_RetryOnError(ans) ==
    [done |-> ans = "allowed", err |-> FALSE]

AuthCond_DoneOnDenied(ans) ==
    [done |-> ans # "error", err |-> ans = "error"]

\* the condition function of WaitForAuthorizationUpdate
AuthCond(ans) ==
    [done |-> ans = "allowed", err |-> ans = "error"]

\* One SubjectAccessReview query and what the poll does with it; when the
\* poll ends, WaitForAuthorizationUpdate returns to line 55.
WaitForAuthorizationUpdate ==
    /\ Alive
    /\ pc = "WaitAuthz"
    /\ \E ans \in AuthResponses, closed \in BOOLEAN :
          /\ IF closed THEN CanClose(AuthBudget) ELSE CanTick(AuthBudget)
          /\ LET r == PollResult(AuthCond(ans), closed)
             IN  /\ polls' = polls + 1
                 /\ lastAnswer' = ans
                 /\ authAnswers' = [authAnswers EXCEPT ![ans] = @ + 1]
                 /\ authErr' = r
                 /\ pc' = IF r = "pending" THEN pc ELSE "AuthzReturned"
    /\ UNCHANGED <<returned, leState, acquisitions, invocations, lastProbe,
                   healthzContent, healthErr, hasContext, enabled, visited, invoked,
                   outcome, current, informers, fatal, fatalName, fleetVars,
                   transportSeen, results, harnessVars>>

AuthzReturned_IgnoreErr ==
    /\ Alive
    /\ pc = "AuthzReturned"
    /\ pc' = "NewContext"
    /\ polls' = 0
    /\ lastAnswer' = "none"
    /\ authAnswers' = NoAnswers
    /\ UNCHANGED <<fatal, returned, leState, acquisitions, invocations, lastProbe,
                   healthzContent, healthErr, authErr, hasContext, enabled, visited,
                   invoked, outcome, current, informers, fatalName, fleetVars,
                   transportSeen, results, harnessVars>>

\* originControllerManager, lines 55-57
AuthzReturned ==
    /\ Alive
    /\ pc = "AuthzReturned"
    /\ IF authErr = "err"
         THEN /\ fatal' = "server missing RBAC policy"
              /\ UNCHANGED <<pc, polls, lastAnswer, authAnswers>>
         ELSE /\ pc' = "NewContext"
              /\ polls' = 0
              /\ lastAnswer' = "none"
              /\ authAnswers' = NoAnswers
              /\ UNCHANGED fatal
    /\ UNCHANGED <<returned, leState, acquisitions, invocations, lastProbe,
                   healthzContent, healthErr, authErr, hasContext, enabled, visited,
                   invoked, outcome, current, informers, fatalName, fleetVars,
                   transportSeen, results, harnessVars>>

(***************************************************************************)
(* origincontrollers.NewControllerContext, lines 59-62                     *)
(***************************************************************************)
\* what a start function returns: (true, nil), (false, nil) or (_, err)
StartResults ==
    {"started", "skipped", "error"}

\* Building the context fails (klog.Fatal) or yields the context, whose
\* configuration fixes the enablement predicate IsControllerEnabled and,
\* with the cluster it talks to, what each start function will return.
NewControllerContext ==
    /\ Alive
    /\ pc = "NewContext"
    /\ \/ /\ fatal' = "NewControllerContext failed"
          /\ UNCHANGED <<pc, hasContext, enabled, results>>
       \/ /\ hasContext' = TRUE
          /\ enabled' \in SUBSET Controllers
          /\ results' \in [Controllers -> StartResults]
          /\ pc' = "StartControllers"
          /\ UNCHANGED fatal
    /\ UNCHANGED <<returned, leState, acquisitions, invocations, polls, lastProbe,
                   healthzContent, healthErr, authAnswers, lastAnswer, authErr,
                   visited, invoked, outcome, current, informers, fatalName,
                   fleetVars, transportSeen, harnessVars>>

(***************************************************************************)
(* startControllers                                                        *)
(***************************************************************************)
\* controllerContext.IsControllerEnabled(controllerName)
IsControllerEnabled(c) ==
    c \in enabled

SkipDisabled_Never(c) ==
    FALSE

\* line 164: the entry is skipped when the context reports it disabled
SkipDisabled(c) ==
    ~IsControllerEnabled(c)

RangeDone_AfterFirst ==
    visited # {}

\* the range loop over ControllerInitializers has visited every entry
RangeDone ==
    visited = Controllers

\* One iteration of the range loop (the map is iterated in any order) for
\* a disabled controller: warn and continue.
LoopDisabled ==
    /\ Alive
    /\ pc = "StartControllers"
    /\ ~RangeDone
    /\ \E c \in Controllers \ visited :
          /\ SkipDisabled(c)
          /\ visited' = visited \cup {c}
          /\ outcome' = [outcome EXCEPT ![c] = "disabled"]
    /\ UNCHANGED <<returned, leState, acquisitions, invocations, pc, polls,
                   lastProbe, healthzContent, healthErr, authAnswers, lastAnswer,
                   authErr, hasContext, enabled, invoked, current, informers,
                   fatal, fatalName, fleetVars,
                   transportSeen, results, harnessVars>>

\* One iteration for an enabled controller: initFn(controllerContext) is
\* called (line 170) and runs until InitFnReturn.
LoopInvoke ==
    /\ Alive
    /\ pc = "StartControllers"
    /\ ~RangeDone
    /\ \E c \in Controllers \ visited :
          /\ ~SkipDisabled(c)
          /\ visited' = visited \cup {c}
          /\ invoked' = [invoked EXCEPT ![c] = @ + 1]
          /\ current' = c
    /\ pc' = "InInitFn"
    /\ UNCHANGED <<returned, leState, acquisitions, invocations, polls, lastProbe,
                   healthzContent, healthErr, authAnswers, lastAnswer, authErr,
                   hasContext, enabled, outcome, informers, fatal, fatalName,
                   fleetVars,
                   transportSeen, results, harnessVars>>

InitFnReturn_ContinueOnError ==
    /\ Alive
    /\ pc = "InInitFn"
    /\ outcome' = [outcome EXCEPT ![current] = results[current]]
    /\ current' = NoController
    /\ pc' = "StartControllers"
    /\ UNCHANGED <<fatal, fatalName, returned, leState, acquisitions, invocations,
                   polls, lastProbe, healthzContent, healthErr, authAnswers,
                   lastAnswer, authErr, hasContext, enabled, visited, invoked,
                   informers, fleetVars,
                   transportSeen, results, harnessVars>>

InitFnReturn_FatalOnSkip ==
    /\ Alive
    /\ pc = "InInitFn"
    /\ LET res == results[current]
       IN  /\ outcome' = [outcome EXCEPT ![current] = res]
           /\ IF res # "started"
                THEN /\ fatal' = "Error starting"
                     /\ fatalName' = current
                     /\ UNCHANGED pc
                ELSE /\ pc' = "StartControllers"
                     /\ UNCHANGED <<fatal, fatalName>>
    /\ current' = NoController
    /\ UNCHANGED <<returned, leState, acquisitions, invocations, polls, lastProbe,
                   healthzContent, healthErr, authAnswers, lastAnswer, authErr,
                   hasContext, enabled, visited, invoked, informers, fleetVars,
                   transportSeen, results, harnessVars>>

InitFnReturn_ReturnOnSkip ==
    /\ Alive
    /\ pc = "InInitFn"
    /\ LET res == results[current]
       IN  /\ outcome' = [outcome EXCEPT ![current] = res]
           /\ IF res = "error"
                THEN /\ fatal' = "Error starting"
                     /\ fatalName' = current
                     /\ UNCHANGED pc
                ELSE /\ pc' = IF res = "skipped" THEN "StartInformers"
                                                ELSE "StartControllers"
                     /\ UNCHANGED <<fatal, fatalName>>
    /\ current' = NoController
    /\ UNCHANGED <<returned, leState, acquisitions, invocations, polls, lastProbe,
                   healthzContent, healthErr, authAnswers, lastAnswer, authErr,
                   hasContext, enabled, visited, invoked, informers, fleetVars,
                   transportSeen, results, harnessVars>>

\* initFn returns (started, err), lines 170-179: an error is fatal
\* (klog.Fatalf names the controller), otherwise the loop continues.
InitFnReturn ==
    /\ Alive
    /\ pc = "InInitFn"
    /\ LET res == results[current]
       IN  /\ outcome' = [outcome EXCEPT ![current] = res]
           /\ IF res = "error"
                THEN /\ fatal' = "Error starting"
                     /\ fatalName' = current
                     /\ UNCHANGED pc
                ELSE /\ pc' = "StartControllers"
                     /\ UNCHANGED <<fatal, fatalName>>
    /\ current' = NoController
    /\ UNCHANGED <<returned, leState, acquisitions, invocations, polls, lastProbe,
                   healthzContent, healthErr, authAnswers, lastAnswer, authErr,
                   hasContext, enabled, visited, invoked, informers, fleetVars,
                   transportSeen, results, harnessVars>>

\* lines 182-184 and 63-65: the loop is over, startControllers returns nil
StartControllersReturn ==
    /\ Alive
    /\ pc = "StartControllers"
    /\ RangeDone
    /\ pc' = "StartInformers"
    /\ UNCHANGED <<returned, leState, acquisitions, invocations, polls, lastProbe,
                   healthzContent, healthErr, authAnswers, lastAnswer, authErr,
                   hasContext, enabled, visited, invoked, outcome, current,
                   informers, fatal, fatalName, fleetVars,
                   transportSeen, results, harnessVars>>

\* line 66: controllerContext.StartInformers(ctx.Done()); the callback ends
StartInformers ==
    /\ Alive
    /\ pc = "StartInformers"
    /\ informers' = informers + 1
    /\ pc' = "Done"
    /\ UNCHANGED <<returned, leState, acquisitions, invocations, polls, lastProbe,
                   healthzContent, healthErr, authAnswers, lastAnswer, authErr,
                   hasContext, enabled, visited, invoked, outcome, current, fatal,
                   fatalName, fleetVars,
                   transportSeen, results, harnessVars>>

(***************************************************************************)
(* RunClusterPolicyController and leader election                          *)
(***************************************************************************)
\* the fallible set-up steps, in order: lines 37, 46, 73, 77
SetupSteps ==
    {"NewForConfig", "RunControllerServer", "Hostname", "resourcelock.New"}

RunClusterPolicyController_RunDirectly ==
    /\ returned = "no"
    /\ returned' = "nil"
    /\ leState' = "Standby"
    /\ invocations' = invocations + 1
    /\ pc' = "WaitHealthy"
    /\ UNCHANGED <<acquisitions, polls, lastProbe, healthzContent, healthErr,
                   authAnswers, lastAnswer, authErr, hasContext, enabled, visited,
                   invoked, outcome, current, informers, fatal, fatalName,
                   fleetVars,
                   transportSeen, results, harnessVars>>

\* the steps that can fail: RunControllerServer runs only when
\* config.ServingInfo is set (line 43)
FallibleSteps(servingInfo) ==
    IF servingInfo THEN SetupSteps ELSE SetupSteps \ {"RunControllerServer"}

RunClusterPolicyController_ElectOnError ==
    /\ returned = "no"
    /\ \/ \E servingInfo \in BOOLEAN :
             \E step \in FallibleSteps(servingInfo) : returned' = step
       \/ returned' = "nil"
    /\ leState' = "Standby"
    /\ UNCHANGED <<acquisitions, invocations, pc, polls, lastProbe, healthzContent,
                   healthErr, authAnswers, lastAnswer, authErr, hasContext, enabled,
                   visited, invoked, outcome, current, informers, fatal, fatalName,
                   fleetVars,
                   transportSeen, results, harnessVars>>

\* Lines 35-106: a failing set-up step returns its error; otherwise leader
\* election is launched in the background (go RunOrDie) and nil returned.
RunClusterPolicyController ==
    /\ returned = "no"
    /\ \/ /\ \E servingInfo \in BOOLEAN :
                \E step \in FallibleSteps(servingInfo) : returned' = step
          /\ UNCHANGED leState
       \/ /\ returned' = "nil"
          /\ leState' = "Standby"
    /\ UNCHANGED <<acquisitions, invocations, pc, polls, lastProbe, healthzContent,
                   healthErr, authAnswers, lastAnswer, authErr, hasContext, enabled,
                   visited, invoked, outcome, current, informers, fatal, fatalName,
                   fleetVars,
                   transportSeen, results, harnessVars>>

\* Callbacks.OnStartedLeading, line 98: the elector starts
\* originControllerManager in its own goroutine.
OnStartedLeading ==
    /\ invocations' = invocations + 1
    /\ pc' = "WaitHealthy"

OnStoppedLeading_LogOnly ==
    "none"

\* Callbacks.OnStoppedLeading, lines 99-101: klog.Fatalf ends the process.
\* The value is the fatal condition the process is in afterwards.
OnStoppedLeading ==
    "leaderelection lost"

\* The elector acquires the lease: this process starts leading.
AcquireLease ==
    /\ Alive
    /\ leState = "Standby"
    /\ leState' = "Leading"
    /\ acquisitions' = acquisitions + 1
    /\ OnStartedLeading
    /\ UNCHANGED <<returned, polls, lastProbe, healthzContent, healthErr,
                   authAnswers, lastAnswer, authErr, hasContext, enabled, visited,
                   invoked, outcome, current, informers, fatal, fatalName,
                   fleetVars,
                   transportSeen, results, harnessVars>>

\* The elector fails to renew the lease; this can happen at any moment of
\* the callback, which runs in another goroutine.
LoseLease ==
    /\ Alive
    /\ leState = "Leading"
    /\ leState' = "Lost"
    /\ fatal' = OnStoppedLeading
    /\ UNCHANGED <<returned, acquisitions, invocations, pc, polls, lastProbe,
                   healthzContent, healthErr, authAnswers, lastAnswer, authErr,
                   hasContext, enabled, visited, invoked, outcome, current,
                   informers, fatalName, fleetVars,
                   transportSeen, results, harnessVars>>

(***************************************************************************)
(* The lease among a fleet of candidates (SpecFleet).  Time is counted in  *)
(* retry periods.  Every candidate acts on what it observed itself: the    *)
(* time since it last saw the lease record change (observedAge).  A        *)
(* candidate takes the lease when the record names no holder or when the   *)
(* record it has observed has not changed for LeaseDuration; the write is  *)
(* a compare-and-swap on the record it read.  A leader that has not        *)
(* renewed for RenewDeadline stops leading before time moves on.           *)
(***************************************************************************)
\* config.LeaderElection.LeaseDuration: longer than the renew deadline
LeaseDuration ==
    RenewDeadline + 1

NoHolder ==
    0

FleetAlive(p) ==
    fleet[p].fatal = "none"

\* p reads the lease record and notes when it saw it change
FleetObserve(p) ==
    /\ FleetAlive(p)
    /\ fleet[p].le = "Standby"
    /\ ~fleet[p].seen
    /\ fleet' = [fleet EXCEPT ![p].seen = TRUE, ![p].observedAge = 0]
    /\ UNCHANGED <<lease, procVars, harnessVars>>

\* p, in Standby, acquires the lease and starts leading
FleetAcquire(p) ==
    /\ FleetAlive(p)
    /\ fleet[p].le = "Standby"
    /\ fleet[p].seen
    /\ lease.holder = NoHolder \/ fleet[p].observedAge >= LeaseDuration
    /\ lease' = [holder |-> p, transitions |-> lease.transitions + 1]
    /\ fleet' = [q \in Procs |->
                   IF q = p
                     THEN [fleet[q] EXCEPT !.le = "Leading", !.observedAge = 0]
                     ELSE [fleet[q] EXCEPT !.seen = FALSE]]
    /\ UNCHANGED <<procVars, harnessVars>>

\* p, leading, renews the lease it still holds
FleetRenew(p) ==
    /\ FleetAlive(p)
    /\ fleet[p].le = "Leading"
    /\ lease.holder = p
    /\ fleet[p].observedAge > 0
    /\ fleet' = [q \in Procs |->
                   IF q = p
                     THEN [fleet[q] EXCEPT !.observedAge = 0]
                     ELSE [fleet[q] EXCEPT !.seen = FALSE]]
    /\ UNCHANGED <<lease, procVars, harnessVars>>

\* p, leading, has failed to renew until its renew deadline: the elector
\* stops and runs OnStoppedLeading
FleetLose(p) ==
    /\ FleetAlive(p)
    /\ fleet[p].le = "Leading"
    /\ fleet[p].observedAge >= RenewDeadline
    /\ fleet' = [fleet EXCEPT ![p].le = "Lost", ![p].fatal = OnStoppedLeading]
    /\ UNCHANGED <<lease, procVars, harnessVars>>

\* one retry period passes
FleetTick ==
    /\ \A p \in Procs :
          (FleetAlive(p) /\ fleet[p].le = "Leading") => fleet[p].observedAge < RenewDeadline
    /\ fleet' = [p \in Procs |->
                   [fleet[p] EXCEPT !.observedAge =
                       IF fleet[p].le # "Lost" /\ @ < LeaseDuration THEN @ + 1 ELSE @]]
    /\ UNCHANGED <<lease, procVars, harnessVars>>

(***************************************************************************)
(* WaitForHealthyAPIServer called again and again (SpecHealth).  The       *)
(* server answers 200 when it is healthy and fails otherwise; healthyCalls *)
(* counts the calls in a row during which it has been healthy throughout.  *)
(***************************************************************************)
\* a caller enters WaitForHealthyAPIServer (line 108) with fresh locals
CallWaitForHealthyAPIServer ==
    /\ pc \in {"NotStarted", "HealthReturned"}
    /\ calls < MaxCalls
    /\ calls' = calls + 1
    /\ healthyCalls' = IF serverHealthy THEN healthyCalls + 1 ELSE 0
    /\ pc' = "WaitHealthy"
    /\ polls' = 0
    /\ lastProbe' = NoResponse
    /\ healthzContent' = ""
    /\ healthErr' = "pending"
    /\ UNCHANGED <<returned, leState, acquisitions, invocations, transportSeen,
                   authAnswers, lastAnswer, authErr, hasContext, enabled, visited,
                   invoked, outcome, current, informers, fatal, fatalName,
                   results, fleetVars, serverHealthy>>

\* one probe of the call in progress, answered by the server as it is
ProbeServer ==
    /\ WaitForHealthyAPIServer
    /\ (HealthStatus(lastProbe') = StatusOK) <=> serverHealthy

ServerBecomesHealthy ==
    /\ ~serverHealthy
    /\ serverHealthy' = TRUE
    /\ UNCHANGED <<procVars, fleetVars, healthyCalls, calls>>

ServerBecomesUnhealthy ==
    /\ serverHealthy
    /\ serverHealthy' = FALSE
    /\ healthyCalls' = 0
    /\ UNCHANGED <<procVars, fleetVars, calls>>

(***************************************************************************)
(* Specifications                                                          *)
(***************************************************************************)
InitProc ==
    /\ returned = "no"
    /\ leState = "Off"
    /\ acquisitions = 0
    /\ invocations = 0
    /\ pc = "NotStarted"
    /\ polls = 0
    /\ lastProbe = NoResponse
    /\ transportSeen = FALSE
    /\ healthzContent = ""
    /\ healthErr = "pending"
    /\ authAnswers = NoAnswers
    /\ lastAnswer = "none"
    /\ authErr = "pending"
    /\ hasContext = FALSE
    /\ enabled = {}
    /\ visited = {}
    /\ invoked = [c \in Controllers |-> 0]
    /\ outcome = [c \in Controllers |-> "none"]
    /\ current = NoController
    /\ informers = 0
    /\ fatal = "none"
    /\ fatalName = NoController
    /\ results = [c \in Controllers |-> "started"]

InitHarness ==
    /\ serverHealthy = FALSE
    /\ healthyCalls = 0
    /\ calls = 0

InitFleet ==
    /\ lease = [holder |-> NoHolder, transitions |-> 0]
    /\ fleet = [p \in Procs |->
                  [le |-> "Standby", fatal |-> "none", observedAge |-> 0, seen |-> FALSE]]

Init ==
    InitProc /\ InitFleet /\ InitHarness

Next ==
    \/ RunClusterPolicyController
    \/ AcquireLease
    \/ LoseLease
    \/ WaitForHealthyAPIServer
    \/ HealthReturned
    \/ WaitForAuthorizationUpdate
    \/ AuthzReturned
    \/ NewControllerContext
    \/ LoopDisabled
    \/ LoopInvoke
    \/ InitFnReturn
    \/ StartControllersReturn
    \/ StartInformers

Spec ==
    Init /\ [][Next]_vars

NextFleet ==
    \/ \E p \in Procs : FleetObserve(p)
    \/ \E p \in Procs : FleetAcquire(p)
    \/ \E p \in Procs : FleetRenew(p)
    \/ \E p \in Procs : FleetLose(p)
    \/ FleetTick

\* The callback runs in a goroutine of its own: whichever step it is at,
\* it is scheduled, its request is answered and its timer fires.  Nothing
\* obliges the elector to win or to lose the lease.
CallbackFairness ==
    /\ WF_vars(WaitForHealthyAPIServer)
    /\ WF_vars(HealthReturned)
    /\ WF_vars(WaitForAuthorizationUpdate)
    /\ WF_vars(AuthzReturned)
    /\ WF_vars(NewControllerContext)
    /\ WF_vars(LoopDisabled)
    /\ WF_vars(LoopInvoke)
    /\ WF_vars(InitFnReturn)
    /\ WF_vars(StartControllersReturn)
    /\ WF_vars(StartInformers)

SpecLive ==
    Init /\ [][Next]_vars /\ CallbackFairness

SpecFleet ==
    Init /\ [][NextFleet]_vars

NextHealth ==
    \/ CallWaitForHealthyAPIServer
    \/ ProbeServer
    \/ ServerBecomesHealthy
    \/ ServerBecomesUnhealthy

SpecHealth ==
    Init /\ [][NextHealth]_vars

(***************************************************************************)
(* Properties                                                              *)
(***************************************************************************)
SomeStartInvoked ==
    \E c \in Controllers : invoked[c] > 0

\* C1: in the leadership callback no controller start function is invoked
\* and no ControllerContext is built until WaitForHealthyAPIServer and then
\* WaitForAuthorizationUpdate have both returned without error; the
\* authorization wait is entered only after the health wait returned nil;
\* once either wait has returned an error no start function is invoked.
C1_ReadinessBeforeStart ==
    /\ (hasContext \/ SomeStartInvoked \/ informers > 0)
          => (healthErr = "nil" /\ authErr = "nil")
    /\ (pc \in {"WaitAuthz", "AuthzReturned"} \/ authErr # "pending")
          => healthErr = "nil"
    /\ (healthErr = "err" \/ authErr = "err")
          => (~hasContext /\ ~SomeStartInvoked /\ current = NoController)

\* a start function is running, both waits having succeeded
C1_Witness ==
    /\ current # NoController
    /\ invoked[current] = 1
    /\ healthErr = "nil"
    /\ authErr = "nil"

SomeStartFailed ==
    \E c \in Controllers : outcome[c] = "error"

\* C2: when the start function of an enabled controller returns an error,
\* the process is at once in a fatal condition that names that controller;
\* from then on no start function is invoked, StartInformers is never
\* called, and no controller that was started is rolled back.
C2_FailFast ==
    [][ /\ \A c \in Controllers :
              outcome[c] = "started" => outcome'[c] = "started"
        /\ SomeStartFailed' =>
              /\ fatal' = "Error starting"
              /\ fatalName' \in Controllers
              /\ outcome'[fatalName'] = "error"
              /\ IsControllerEnabled(fatalName')
              /\ informers' = 0
        /\ SomeStartFailed =>
              /\ invoked' = invoked
              /\ visited' = visited
              /\ outcome' = outcome
              /\ informers' = informers
      ]_vars

\* a start function has failed after another controller was started and
\* while a third entry of the registry had not been visited
C2_Witness ==
    /\ SomeStartFailed
    /\ \E c \in Controllers : outcome[c] = "started"
    /\ \E c \in Controllers : c \in enabled /\ c \notin visited

\* C3: StartInformers is called at most once, and only when the start
\* function of every enabled controller has been invoked and has returned
\* without error, none being in progress.
C3_InformersAfterAllStarts ==
    /\ informers <= 1
    /\ (informers = 1 \/ pc = "StartInformers") =>
          /\ current = NoController
          /\ \A c \in enabled :
                invoked[c] >= 1 /\ outcome[c] \in {"started", "skipped"}

\* StartInformers has been called with at least two controllers enabled
C3_Witness ==
    /\ informers = 1
    /\ Cardinality(enabled) >= 2

\* C4: startControllers invokes the start function of exactly the enabled
\* controllers, each exactly once when it returns; a disabled controller
\* is never invoked and causes no error.
C4_ExactlyEnabledInvoked ==
    /\ \A c \in Controllers :
          /\ invoked[c] <= 1
          /\ c \notin enabled => (invoked[c] = 0 /\ outcome[c] \in {"none", "disabled"})
    /\ fatalName # NoController => fatalName \in enabled
    /\ pc \in {"StartInformers", "Done"} =>
          \A c \in Controllers :
              /\ invoked[c] = (IF c \in enabled THEN 1 ELSE 0)
              /\ outcome[c] = "disabled" <=> c \notin enabled

\* startControllers has returned with some controller enabled and some
\* other one disabled
C4_Witness ==
    /\ pc = "StartInformers"
    /\ enabled # {}
    /\ enabled # Controllers
    /\ \E c \in Controllers : outcome[c] = "disabled"

\* C5: losing the lease ends the process at once and for good: in the Lost
\* state the process is terminated, and nothing happens after it (no return
\* to Standby, no second acquisition, no second call of the callback).
C5_LeaseLossIsFinal ==
    [][ /\ leState' = "Lost" => fatal' = "leaderelection lost"
        /\ leState = "Lost" =>
              /\ leState' = "Lost"
              /\ acquisitions' = acquisitions
              /\ invocations' = invocations
              /\ procVars' = procVars
      ]_vars

\* the lease was lost after the callback had started the informers
C5_Witness ==
    /\ leState = "Lost"
    /\ informers = 1
    /\ acquisitions = 1

\* C6: the leadership callback has been invoked exactly as often as the
\* lease has been acquired: never without an acquisition, once per
\* acquisition.
C6_OneCallbackPerAcquisition ==
    /\ invocations = acquisitions
    /\ leState \in {"Off", "Standby"} <=> acquisitions = 0
    /\ pc = "NotStarted" <=> invocations = 0

\* the process leads and its callback is at work
C6_Witness ==
    /\ leState = "Leading"
    /\ acquisitions = 1
    /\ invocations = 1
    /\ pc = "InInitFn"

\* a process does the leader's work: it is alive and its leadership
\* callback has been started
FleetLeading(p) ==
    FleetAlive(p) /\ fleet[p].le \in {"Leading", "Lost"}

C8_HealthErrorOnlyOnTimeout ==
    /\ healthErr = "err" =>
          (polls > HealthBudget /\ HealthStatus(lastProbe) # StatusOK)
    /\ pc = "WaitHealthy" =>
          (healthErr = "pending" /\ HealthStatus(lastProbe) # StatusOK)
    /\ (pc = "HealthReturned" /\ HealthStatus(lastProbe) = StatusOK) =>
          healthErr = "nil"

\* the wait returned nil on the last tick of the budget, after failing
\* probes one of which failed at transport level
C8_Witness ==
    /\ pc = "HealthReturned"
    /\ healthErr = "nil"
    /\ polls = HealthBudget + 1
    /\ transportSeen

\* C9: WaitForAuthorizationUpdate returns nil exactly at the first
\* "allowed" answer: after K "denied" answers and one "allowed" it has made
\* K + 1 queries; it does not give up while it has seen at most AuthBudget
\* denials and no request error.
C9_AuthSucceedsAtKPlus1 ==
    /\ (pc = "AuthzReturned" /\ authErr = "nil") =>
          /\ lastAnswer = "allowed"
          /\ authAnswers.allowed = 1
          /\ authAnswers.error = 0
          /\ polls = authAnswers.denied + 1
    /\ pc = "WaitAuthz" =>
          (authErr = "pending" /\ authAnswers.allowed = 0 /\ polls = authAnswers.denied)
    /\ (pc = "AuthzReturned" /\ lastAnswer = "allowed") => authErr = "nil"
    /\ (authErr = "err" /\ authAnswers.error = 0) => authAnswers.denied > AuthBudget

\* K = AuthBudget: 120 denials, then allowed on query 121
C9_Witness ==
    /\ pc = "AuthzReturned"
    /\ authErr = "nil"
    /\ authAnswers.denied = AuthBudget
    /\ polls = AuthBudget + 1

\* C10: a request error on an authorization query, the first or a later
\* one, ends WaitForAuthorizationUpdate with an error and no further query;
\* a transport error on a health probe within the budget leaves
\* WaitForHealthyAPIServer polling.
C10_TransportErrorPolicies ==
    /\ (pc \in {"WaitAuthz", "AuthzReturned"} /\ authAnswers.error > 0) =>
          /\ pc = "AuthzReturned"
          /\ authErr = "err"
          /\ lastAnswer = "error"
          /\ authAnswers.error = 1
          /\ polls = authAnswers.denied + 1
    /\ (pc \in {"WaitHealthy", "HealthReturned"} /\ lastProbe.transport
           /\ polls <= HealthBudget) =>
          (pc = "WaitHealthy" /\ healthErr = "pending")

\* the authorization wait ended on a request error of a later query, in a
\* process whose health wait had survived a transport error
C10_Witness ==
    /\ pc = "AuthzReturned"
    /\ authErr = "err"
    /\ authAnswers.error = 1
    /\ authAnswers.denied > 0
    /\ transportSeen

\* a step that issues a health probe
HealthProbeStep ==
    pc = "WaitHealthy" /\ polls' = polls + 1

\* a step that issues an authorization query
AuthQueryStep ==
    \E ans \in AuthResponses : authAnswers'[ans] = authAnswers[ans] + 1

\* C11: the two waits are sequential and their results final: an
\* authorization query is issued only after the health wait returned nil
\* (so never when it failed), no health probe is issued once the health
\* wait has returned, and a wait that returned nil stays so.
C11_WaitsSequential ==
    [][ /\ AuthQueryStep => healthErr = "nil"
        /\ healthErr # "pending" => ~HealthProbeStep
        /\ healthErr = "nil" => healthErr' = "nil"
        /\ authErr = "nil" => authErr' = "nil"
        /\ healthErr = "err" => (authAnswers' = NoAnswers /\ authErr' = "pending")
      ]_vars

\* authorization queries are being issued, the health wait having returned
\* nil after more than one probe
C11_Witness ==
    /\ pc = "WaitAuthz"
    /\ healthErr = "nil"
    /\ transportSeen
    /\ authAnswers.denied > 1

\* C12: when WaitForHealthyAPIServer fails by timeout, the error it returns
\* carries the response body of the last probe observed.
C12_ErrorCarriesLastBody ==
    (pc = "HealthReturned" /\ healthErr = "err") =>
        ServerUnhealthyError.content = lastProbe.body

\* a readiness wait failed by exhausting its timeout
WaitTimedOut ==
    \/ healthErr = "err"
    \/ authErr = "err" /\ authAnswers.error = 0

C14_SkipIsNotAnError ==
    [][ /\ (pc = "InInitFn" /\ outcome'[current] = "skipped") =>
              /\ pc' = "StartControllers"
              /\ fatal' = "none"
              /\ informers' = 0
        /\ pc' \in {"StartInformers", "Done"} => visited' = Controllers
        /\ fatalName' # NoController => outcome'[fatalName'] = "error"
      ]_vars

\* StartInformers was called after a pass in which one start function
\* returned (false, nil) and another one started its controller
C14_Witness ==
    /\ informers = 1
    /\ \E c \in enabled : outcome[c] = "skipped"
    /\ \E c \in enabled : outcome[c] = "started"

\* C15: a call of WaitForHealthyAPIServer against a server that is healthy
\* returns nil on its first probe, the one made before any interval has
\* passed; so does every further call while the server stays healthy.
C15_HealthyFirstProbe ==
    /\ (healthyCalls > 0 /\ pc = "WaitHealthy") => polls = 0
    /\ (healthyCalls > 0 /\ pc = "HealthReturned") =>
          /\ healthErr = "nil"
          /\ polls = 1
          /\ healthzContent = "ok"

\* MaxCalls calls in a row have been made against a healthy server and the
\* last one has returned
C15_Witness ==
    /\ healthyCalls = MaxCalls
    /\ healthyCalls >= 2
    /\ pc = "HealthReturned"

\* C16: the lease can be lost at every point of the running callback (the
\* elector does not wait for it), and the loss ends the process there:
\* with and after the loss no start function is invoked, no probe or query
\* is made and StartInformers is not called.
C16_LossEndsCallback ==
    /\ []((leState = "Leading" /\ Alive) => ENABLED LoseLease)
    /\ [][ (leState' = "Lost") =>
              /\ fatal' # "none"
              /\ invoked' = invoked
              /\ visited' = visited
              /\ informers' = informers
              /\ polls' = polls
              /\ pc' = pc
         ]_vars

\* the lease was lost while a start function was running and an enabled
\* controller had not been visited yet
C16_Witness ==
    /\ leState = "Lost"
    /\ pc = "InInitFn"
    /\ current # NoController
    /\ enabled \ visited # {}
    /\ informers = 0

\* what the pass must come to, as a function of the enablement predicate
\* and the start functions' results alone: it aborts exactly when some
\* enabled controller's start function returns an error
ExpectedAbort ==
    \E c \in enabled : results[c] = "error"

\* C17: whatever the order in which the range loop visits the registry,
\* the pass aborts exactly when ExpectedAbort holds; when it does not, the
\* controllers invoked are the enabled ones and the controllers started
\* are the enabled ones whose start function returns (true, nil).
C17_OrderIndependent ==
    /\ pc \in {"StartInformers", "Done"} =>
          /\ ~ExpectedAbort
          /\ {c \in Controllers : invoked[c] > 0} = enabled
          /\ {c \in Controllers : outcome[c] = "started"}
                = {c \in enabled : results[c] = "started"}
    /\ fatal = "Error starting" => ExpectedAbort
    /\ (hasContext /\ visited = Controllers /\ current = NoController
           /\ ExpectedAbort) => fatal = "Error starting"

\* a pass over a registry with a started, a skipped and a disabled
\* controller has ended without abort
C17_Witness ==
    /\ pc = "StartInformers"
    /\ \E c, d \in enabled : results[c] = "started" /\ results[d] = "skipped"
    /\ enabled # Controllers
    /\ \E c \in Controllers \ enabled : results[c] = "error"

\* C18: the callback, once invoked, comes to a final outcome: the health
\* wait makes at most HealthBudget + 2 probes and the authorization wait
\* at most AuthBudget + 2 queries, each returning nil or an error, and
\* (every start function returning) the callback in the end has either
\* ended the process or called StartInformers.
C18_CallbackTerminates ==
    /\ [](pc \in {"WaitHealthy", "HealthReturned"} => polls <= HealthBudget + 2)
    /\ [](pc \in {"WaitAuthz", "AuthzReturned"} => polls <= AuthBudget + 2)
    /\ [](pc = "HealthReturned" => healthErr \in {"nil", "err"})
    /\ [](pc = "AuthzReturned" => authErr \in {"nil", "err"})
    /\ (invocations > 0) ~> (fatal # "none" \/ informers = 1)

\* the callback has called StartInformers after a health wait that saw a
\* failing probe and a pass in which a start function ran
C18_Witness ==
    /\ pc = "Done"
    /\ informers = 1
    /\ fatal = "none"
    /\ transportSeen
    /\ SomeStartInvoked

\* C19: a process waiting for the lease does no orchestrated work: in
\* Standby, with RunClusterPolicyController returned nil, no probe and no
\* authorization query has been made, no ControllerContext built, no start
\* function invoked and no informers started; and nothing but acquiring
\* the lease takes it out of Standby.
C19_StandbyIsIdle ==
    /\ [](leState = "Standby" =>
            /\ returned = "nil"
            /\ pc = "NotStarted"
            /\ invocations = 0
            /\ polls = 0
            /\ lastProbe = NoResponse
            /\ authAnswers = NoAnswers
            /\ ~hasContext
            /\ \A c \in Controllers : invoked[c] = 0
            /\ informers = 0)
    /\ [][leState = "Standby" /\ leState' # "Standby" => AcquireLease]_vars

\* a process in Standby after RunClusterPolicyController returned nil
C19_Witness ==
    /\ leState = "Standby"
    /\ returned = "nil"
    /\ acquisitions = 0

\* C20: when a set-up step fails the function returns that step's error
\* and no election exists: the process is never in Standby, never acquires
\* the lease, never runs the callback; nil is returned only with the
\* election launched.
C20_SetupErrorNoElection ==
    /\ returned \in SetupSteps =>
          /\ leState = "Off"
          /\ acquisitions = 0
          /\ invocations = 0
          /\ pc = "NotStarted"
          /\ fatal = "none"
    /\ returned = "nil" <=> leState # "Off"
    /\ returned \in {"no", "nil"} \cup SetupSteps

\* the resource lock could not be created: the error is returned, no election
C20_Witness ==
    /\ returned = "resourcelock.New"
    /\ leState = "Off"

=============================================================================
